---- MODULE Spec2Model ----
(***************************************************************************)
(* Model of the wasm-game-of-life crate (src/src/lib.rs): the Universe     *)
(* (width, height, FixedBitSet cells), its constructors, tick(), the       *)
(* neighbour count, the Display implementation and the animation-frame     *)
(* loop of run().                                                          *)
(***************************************************************************)
EXTENDS Integers, Sequences, FiniteSets

\* ---------------------------------------------------------------- bounds
MaxWidth == 3
MaxHeight == 2
MaxViewport == 13
MaxRunViewport == 5
MaxSquare == 5
MaxSeed == 3

\* ------------------------------------------------------ program constants
CELL_SIZE == 3
BORDER_SIZE == 1
TickLimit == 36000
BlinkerSize == 5

\* Math.random() samples, in tenths: 0.5 (the boundary) and 0.9.
Samples == {5, 9}
RandomThreshold == 5

AliveGlyph == "U+25FC"
DeadGlyph == "U+25FB"
Newline == "\n"

VARIABLES
  pc,        \* "start" before construction, "constructed" after
  universe,  \* the Universe struct: [width, height, cells]
  ret,       \* the most recent call on the Universe API and what it returned
  ticks,     \* number of universe.tick() calls made by the closure of run()
  tick,      \* the counter captured by the closure of run()
  f,         \* TRUE while the Rc<RefCell<Option<Closure>>> holds Some(closure)
  raf,       \* TRUE while a requested animation frame is pending
  rafCalls   \* number of request_animation_frame calls made so far

vars == <<pc, universe, ret, ticks, tick, f, raf, rafCalls>>
runVars == <<tick, f, raf, rafCalls>>

\* ------------------------------------------------------------ FixedBitSet
\* FixedBitSet::with_capacity(bits): bits cleared bits.
WithCapacity(bits) == [i \in 1..bits |-> FALSE]

\* Index<usize>: contains(bit), false outside the capacity.
Bit(cells, idx) == IF idx < Len(cells) THEN cells[idx + 1] ELSE FALSE

\* FixedBitSet::set(bit, enabled); every call of the crate is in range.
BitSet(cells, idx, enabled) == [cells EXCEPT ![idx + 1] = enabled]

\* --------------------------------------------------------------- Universe
\* a buffer sized width + height
NewCapacityAdd(width, height) ==
  [width |-> width, height |-> height, cells |-> WithCapacity(width + height)]

New(width, height) ==
  [width |-> width, height |-> height, cells |-> WithCapacity(width * height)]

Width(u) == u.width
Height(u) == u.height

GetIndex(u, row, column) == row * u.width + column

\* the loop `for i in 0..(width * height)` with one Math.random() per i
RECURSIVE RandomFill(_, _, _, _)
RandomFill(cells, rnd, i, n) ==
  IF i >= n THEN cells
  ELSE RandomFill(IF rnd[i + 1] > RandomThreshold THEN BitSet(cells, i, TRUE) ELSE cells,
                  rnd, i + 1, n)

NewRandom(width, height, rnd) ==
  LET u == New(height, width)
  IN [u EXCEPT !.cells = RandomFill(u.cells, rnd, 0, width * height)]

ViewportToCells(inner) == (inner - BORDER_SIZE) \div (CELL_SIZE + BORDER_SIZE)

NewByWindowInfo(inner_width, inner_height, rnd) ==
  LET height == ViewportToCells(inner_height)
      width == ViewportToCells(inner_width)
      u == New(width, height)
  IN [u EXCEPT !.cells = RandomFill(u.cells, rnd, 0, width * height)]

\* ------------------------------------------------------- neighbour count
\* a neighbour coordinate that stops at the last row/column instead of wrapping
WrapClamp(a, delta, n) == IF a + delta >= n THEN n - 1 ELSE a + delta

WrapAdd(a, delta, n) == (a + delta) % n

RowDeltas(u) == <<u.height - 1, 0, 1>>
ColDeltas(u) == <<u.width - 1, 0, 1>>

RECURSIVE CountCols(_, _, _, _, _, _)
CountCols(u, row, column, delta_row, j, count) ==
  IF j > 3 THEN count
  ELSE LET delta_col == ColDeltas(u)[j]
       IN IF delta_row = 0 /\ delta_col = 0
          THEN CountCols(u, row, column, delta_row, j + 1, count)
          ELSE LET neighbor_row == WrapAdd(row, delta_row, u.height)
                   neighbor_col == WrapAdd(column, delta_col, u.width)
                   idx == GetIndex(u, neighbor_row, neighbor_col)
               IN CountCols(u, row, column, delta_row, j + 1,
                            count + (IF Bit(u.cells, idx) THEN 1 ELSE 0))

RECURSIVE CountRows(_, _, _, _, _)
CountRows(u, row, column, i, count) ==
  IF i > 3 THEN count
  ELSE CountRows(u, row, column, i + 1,
                 CountCols(u, row, column, RowDeltas(u)[i], 1, count))

LiveNeighborCount(u, row, column) == CountRows(u, row, column, 1, 0)

\* ------------------------------------------------------------------ tick
\* a rule table whose survival arm reads x == 3 only
NextCellSurviveThree(cell, x) ==
  IF cell /\ x < 3 THEN FALSE
  ELSE IF cell /\ x = 3 THEN TRUE
  ELSE IF cell /\ x > 3 THEN FALSE
  ELSE IF ~cell /\ x = 3 THEN TRUE
  ELSE cell

\* the match on (cell, live_neighbors)
NextCell(cell, x) ==
  IF cell /\ x < 2 THEN FALSE
  ELSE IF cell /\ (x = 2 \/ x = 3) THEN TRUE
  ELSE IF cell /\ x > 3 THEN FALSE
  ELSE IF ~cell /\ x = 3 THEN TRUE
  ELSE cell

\* a tick that reads the buffer it is writing
RECURSIVE TickColsInPlace(_, _, _, _)
TickColsInPlace(u, next, row, col) ==
  IF col >= u.width THEN next
  ELSE LET idx == GetIndex(u, row, col)
           cur == [u EXCEPT !.cells = next]
           cell == Bit(cur.cells, idx)
           live_neighbors == LiveNeighborCount(cur, row, col)
       IN TickColsInPlace(u, BitSet(next, idx, NextCell(cell, live_neighbors)), row, col + 1)

RECURSIVE TickCols(_, _, _, _)
TickCols(u, next, row, col) ==
  IF col >= u.width THEN next
  ELSE LET idx == GetIndex(u, row, col)
           cell == Bit(u.cells, idx)
           live_neighbors == LiveNeighborCount(u, row, col)
       IN TickCols(u, BitSet(next, idx, NextCell(cell, live_neighbors)), row, col + 1)

RECURSIVE TickRows(_, _, _)
TickRows(u, next, row) ==
  IF row >= u.height THEN next
  ELSE TickRows(u, TickCols(u, next, row, 0), row + 1)

\* a tick that hands back the grid with its dimensions exchanged
TickUniverseTransposed(u) ==
  [width |-> u.height, height |-> u.width, cells |-> TickRows(u, u.cells, 0)]

\* let mut next = self.cells.clone(); ...; self.cells = next
TickUniverse(u) == [u EXCEPT !.cells = TickRows(u, u.cells, 0)]

\* --------------------------------------------------------------- Display
\* the two glyphs exchanged
SymbolSwapped(alive) == IF alive THEN DeadGlyph ELSE AliveGlyph

Symbol(alive) == IF alive THEN AliveGlyph ELSE DeadGlyph

RECURSIVE FmtCols(_, _, _, _)
FmtCols(u, out, row, col) ==
  IF col >= u.width THEN out
  ELSE FmtCols(u, Append(out, Symbol(Bit(u.cells, GetIndex(u, row, col)))), row, col + 1)

RECURSIVE FmtRows(_, _, _)
FmtRows(u, out, row) ==
  IF row >= u.height THEN out
  ELSE FmtRows(u, Append(FmtCols(u, out, row, 0), Newline), row + 1)

\* to_string() / render()
ToString(u) == FmtRows(u, <<>>, 0)

\* ------------------------------------------------------------ state, Init
NoReturn == [op |-> "none", a |-> 0, b |-> 0, val |-> 0, text |-> <<>>]
Call(op, a, b, val, text) == [op |-> op, a |-> a, b |-> b, val |-> val, text |-> text]

Init ==
  /\ pc = "start"
  /\ universe = New(0, 0)
  /\ ret = NoReturn
  /\ ticks = 0
  /\ tick = 0
  /\ f = FALSE
  /\ raf = FALSE
  /\ rafCalls = 0

\* ------------------------------------------------------ engine operations
DoNew ==
  /\ pc = "start"
  /\ \E width \in 0..MaxWidth, height \in 0..MaxHeight :
       /\ universe' = New(width, height)
       /\ ret' = Call("new", width, height, 0, <<>>)
  /\ pc' = "constructed"
  /\ UNCHANGED <<ticks, runVars>>

DoNewRandom ==
  /\ pc = "start"
  /\ \E width \in 0..MaxWidth, height \in 0..MaxHeight :
       \E rnd \in [1..(width * height) -> Samples] :
         /\ universe' = NewRandom(width, height, rnd)
         /\ ret' = Call("new_random", width, height, 0, <<>>)
  /\ pc' = "constructed"
  /\ UNCHANGED <<ticks, runVars>>

\* Viewport sides are drawn from BORDER_SIZE upwards: below it the usize
\* subtraction `inner - BORDER_SIZE` overflows before any grid exists.
DoNewByWindowInfo ==
  /\ pc = "start"
  /\ \E inner_width \in BORDER_SIZE..MaxViewport, inner_height \in BORDER_SIZE..MaxViewport :
       \E rnd \in [1..(ViewportToCells(inner_width) * ViewportToCells(inner_height)) -> Samples] :
         /\ universe' = NewByWindowInfo(inner_width, inner_height, rnd)
         /\ ret' = Call("new_by_window_info", inner_width, inner_height, 0, <<>>)
  /\ pc' = "constructed"
  /\ UNCHANGED <<ticks, runVars>>

DoTick ==
  /\ pc = "constructed"
  /\ universe' = TickUniverse(universe)
  /\ ret' = Call("tick", 0, 0, 0, <<>>)
  /\ UNCHANGED <<pc, ticks, runVars>>

DoWidth ==
  /\ pc = "constructed"
  /\ ret' = Call("width", 0, 0, Width(universe), <<>>)
  /\ UNCHANGED <<pc, universe, ticks, runVars>>

DoHeight ==
  /\ pc = "constructed"
  /\ ret' = Call("height", 0, 0, Height(universe), <<>>)
  /\ UNCHANGED <<pc, universe, ticks, runVars>>

DoRender ==
  /\ pc = "constructed"
  /\ ret' = Call("render", 0, 0, 0, ToString(universe))
  /\ UNCHANGED <<pc, universe, ticks, runVars>>

DoLiveNeighborCount ==
  /\ pc = "constructed"
  /\ \E row \in 0..(universe.height - 1), column \in 0..(universe.width - 1) :
       ret' = Call("live_neighbor_count", row, column,
                   LiveNeighborCount(universe, row, column), <<>>)
  /\ UNCHANGED <<pc, universe, ticks, runVars>>

Next ==
  \/ DoNew
  \/ DoNewRandom
  \/ DoNewByWindowInfo
  \/ DoTick
  \/ DoWidth
  \/ DoHeight
  \/ DoRender

Spec == Init /\ [][Next]_vars

\* ------------------------------------------- the tests module (mod tests)
\* coordinates the harness seeds: the middle column (as both tests do) and the corner
SeedCoords(u) ==
  {rc \in (0..(u.height - 1)) \X (0..(u.width - 1)) :
     \/ rc[2] = u.width \div 2
     \/ rc = <<0, 0>>}

LiveCells(u) ==
  {rc \in (0..(u.height - 1)) \X (0..(u.width - 1)) :
     Bit(u.cells, GetIndex(u, rc[1], rc[2]))}

\* set_cells(&mut universe, &[(row, col)])
SetCells(u, row, col) == [u EXCEPT !.cells = BitSet(u.cells, GetIndex(u, row, col), TRUE)]

TestNew ==
  /\ pc = "start"
  /\ \E n \in 1..MaxSquare :
       /\ universe' = New(n, n)
       /\ ret' = Call("new", n, n, 0, <<>>)
  /\ pc' = "constructed"
  /\ UNCHANGED <<ticks, runVars>>

TestSetCells ==
  /\ pc = "constructed"
  /\ ret.op \in {"new", "set_cells"}
  /\ Cardinality(LiveCells(universe)) < MaxSeed
  /\ \E rc \in SeedCoords(universe) :
       /\ universe' = SetCells(universe, rc[1], rc[2])
       /\ ret' = Call("set_cells", rc[1], rc[2], 0, <<>>)
  /\ UNCHANGED <<pc, ticks, runVars>>

\* a test that seeds a grid and advances it
TestTickNext ==
  \/ TestNew
  \/ TestSetCells
  \/ DoTick

SpecTestTick == Init /\ [][TestTickNext]_vars

\* a test that seeds a grid and counts neighbours
TestCountNext ==
  \/ TestNew
  \/ TestSetCells
  \/ DoLiveNeighborCount

SpecTestCount == Init /\ [][TestCountNext]_vars

\* ------------------------------------------------------------- run()
\* a bound that is off by one
ShouldStopLate(t) == t > TickLimit + 1

\* if tick > 36000
ShouldStop(t) == t > TickLimit

\* run(): build the universe from the window, store the closure, request the first frame
Run ==
  /\ pc = "start"
  /\ \E inner_width \in BORDER_SIZE..MaxRunViewport, inner_height \in BORDER_SIZE..MaxRunViewport :
       \E rnd \in [1..(ViewportToCells(inner_width) * ViewportToCells(inner_height)) -> Samples] :
         universe' = NewByWindowInfo(inner_width, inner_height, rnd)
  /\ ret' = Call("run", 0, 0, 0, <<>>)
  /\ pc' = "constructed"
  /\ tick' = 0
  /\ f' = TRUE
  /\ raf' = TRUE
  /\ rafCalls' = 1
  /\ UNCHANGED ticks

\* the host delivers the pending frame: one invocation of the closure
Frame ==
  /\ raf
  /\ f
  /\ IF ShouldStop(tick)
     THEN /\ f' = FALSE
          /\ raf' = FALSE
          /\ UNCHANGED <<pc, universe, ret, ticks, tick, rafCalls>>
     ELSE /\ tick' = tick + 1
          /\ universe' = TickUniverse(universe)
          /\ ticks' = ticks + 1
          /\ raf' = TRUE
          /\ rafCalls' = rafCalls + 1
          /\ ret' = Call("tick", 0, 0, 0, <<>>)
          /\ UNCHANGED <<pc, f>>

RunNext ==
  \/ Run
  \/ Frame

\* the host delivers every frame that was requested
SpecRun == Init /\ [][RunNext]_vars /\ WF_vars(Frame)

\* ================================================================ claims
Coords(u) == (0..(u.height - 1)) \X (0..(u.width - 1))

\* the rule table of the specification
RuleTable(alive, n) == IF alive THEN n \in {2, 3} ELSE n = 3

\* C1: on a grid with width >= 1 and height >= 1, after one tick() every cell
\* holds the rule-table result of its pre-tick state and of its
\* live_neighbor_count on the pre-tick buffer.
C1_TickAppliesRuleTable ==
  [][(ret'.op = "tick" /\ universe.width >= 1 /\ universe.height >= 1) =>
       \A rc \in Coords(universe) :
         Bit(universe'.cells, GetIndex(universe', rc[1], rc[2])) =
           RuleTable(Bit(universe.cells, GetIndex(universe, rc[1], rc[2])),
                     LiveNeighborCount(universe, rc[1], rc[2]))]_vars

C1_Witness ==
  /\ ret.op = "tick"
  /\ universe.width = 3
  /\ universe.height = 3
  /\ Cardinality(LiveCells(universe)) = 9

\* the signed formulation: the cell state at ((row + dr + height) mod height,
\* (col + dc + width) mod width) summed over the 8 pairs other than (0, 0)
SignedNeighborCount(u, row, col) ==
  Cardinality({d \in ({-1, 0, 1} \X {-1, 0, 1}) \ {<<0, 0>>} :
                 Bit(u.cells, ((row + d[1] + u.height) % u.height) * u.width
                              + ((col + d[2] + u.width) % u.width))})

\* C2: on every grid with width >= 1 and height >= 1, live_neighbor_count
\* returns the value, in 0..8, of the signed formulation.
C2_UnsignedEqualsSigned ==
  ret.op = "live_neighbor_count" =>
    /\ ret.val \in 0..8
    /\ ret.val = SignedNeighborCount(universe, ret.a, ret.b)

\* C3: the grid returned by new_random(w, h), w >= 1 and h >= 1, reports
\* width() = w and height() = h.
C3_NewRandomDimensions ==
  (ret.op = "new_random" /\ ret.a >= 1 /\ ret.b >= 1) =>
    (Width(universe) = ret.a /\ Height(universe) = ret.b)

\* C4: no constructor returns a grid whose width or height is 0.
C4_NoZeroDimension ==
  pc = "constructed" => (Width(universe) >= 1 /\ Height(universe) >= 1)

\* C5: the cell buffer's length equals width * height for every constructed
\* grid, after any number of ticks.
C5_BufferLength ==
  pc = "constructed" => Len(universe.cells) = universe.width * universe.height

C5_Witness ==
  /\ ret.op = "tick"
  /\ Len(universe.cells) = 6
  /\ universe.width = 2
  /\ universe.height = 3
  /\ LiveCells(universe) # {}

\* C6: on an N x N grid, N >= 2, whose only live cell is (0, 0), the count at
\* (N-1, N-1), (N-1, 0) and (0, N-1) is at least 1, and exactly 1 when N >= 3.
C6_CornerWraps ==
  LET n == universe.width IN
  (/\ ret.op = "live_neighbor_count"
   /\ universe.height = n
   /\ n >= 2
   /\ LiveCells(universe) = {<<0, 0>>}
   /\ <<ret.a, ret.b>> \in {<<n - 1, n - 1>>, <<n - 1, 0>>, <<0, n - 1>>})
  => (ret.val >= 1 /\ (n >= 3 => ret.val = 1))

C6_Witness ==
  /\ ret.op = "live_neighbor_count"
  /\ universe.width = 4
  /\ universe.height = 4
  /\ LiveCells(universe) = {<<0, 0>>}
  /\ <<ret.a, ret.b>> = <<3, 3>>
  /\ ret.val = 1

VerticalBlinker == {<<1, 2>>, <<2, 2>>, <<3, 2>>}
HorizontalBlinker == {<<2, 1>>, <<2, 2>>, <<2, 3>>}
IsBlinkerGrid(u) == u.width = BlinkerSize /\ u.height = BlinkerSize

\* C7: on the 5x5 grid, one tick() takes the vertical blinker to exactly the
\* horizontal blinker and the next tick() takes it back to the vertical one.
C7_BlinkerOscillates ==
  [][(ret'.op = "tick" /\ IsBlinkerGrid(universe)) =>
       /\ LiveCells(universe) = VerticalBlinker =>
            (IsBlinkerGrid(universe') /\ LiveCells(universe') = HorizontalBlinker)
       /\ LiveCells(universe) = HorizontalBlinker =>
            (IsBlinkerGrid(universe') /\ LiveCells(universe') = VerticalBlinker)]_vars

C7_Witness ==
  /\ ret.op = "tick"
  /\ IsBlinkerGrid(universe)
  /\ LiveCells(universe) = VerticalBlinker

\* C8: once the grid is constructed, width() and height() never change;
\* tick() changes the cell contents only.
C8_DimensionsFixed ==
  [][pc = "constructed" =>
       (Width(universe') = Width(universe) /\ Height(universe') = Height(universe))]_vars

C8_Witness ==
  /\ ret.op = "tick"
  /\ universe.width = 3
  /\ universe.height = 2
  /\ LiveCells(universe) # {}

MiddleColumn == {<<0, 1>>, <<1, 1>>, <<2, 1>>}
MiddleColumnText ==
  <<DeadGlyph, AliveGlyph, DeadGlyph, Newline,
    DeadGlyph, AliveGlyph, DeadGlyph, Newline,
    DeadGlyph, AliveGlyph, DeadGlyph, Newline>>

\* C9: render() is height rows in row order, each width glyphs and a newline,
\* the glyph at (r, c) being the alive glyph iff the cell is alive; the 3x3
\* grid with the middle column alive renders as three rows dead-alive-dead.
C9_RenderLayout ==
  ret.op = "render" =>
    LET w == universe.width
        h == universe.height
        t == ret.text
    IN /\ Len(t) = h * (w + 1)
       /\ \A r \in 0..(h - 1) :
            /\ t[r * (w + 1) + w + 1] = Newline
            /\ \A c \in 0..(w - 1) :
                 t[r * (w + 1) + c + 1] =
                   (IF <<r, c>> \in LiveCells(universe) THEN AliveGlyph ELSE DeadGlyph)
       /\ (w = 3 /\ h = 3 /\ LiveCells(universe) = MiddleColumn) => t = MiddleColumnText

C9_Witness ==
  /\ ret.op = "render"
  /\ universe.width = 3
  /\ universe.height = 3
  /\ LiveCells(universe) = MiddleColumn
  /\ ret.text = MiddleColumnText

Stopped == pc = "constructed" /\ ~f /\ ~raf

\* C10: a callback run with the counter <= 36000 ticks once and requests one
\* frame; the first one with the counter > 36000 does neither and drops the
\* closure handle; tick() runs at most 36001 times; when every requested frame
\* is delivered the loop reaches the stopped state and never ticks again.
C10_LoopBoundedAndStops ==
  /\ [][(raf /\ tick <= TickLimit) =>
          (ticks' = ticks + 1 /\ rafCalls' = rafCalls + 1 /\ raf' /\ f'
           /\ universe' = TickUniverse(universe))]_vars
  /\ [][(raf /\ tick > TickLimit) =>
          (ticks' = ticks /\ rafCalls' = rafCalls /\ ~raf' /\ ~f'
           /\ universe' = universe)]_vars
  /\ [](ticks <= TickLimit + 1)
  /\ [][Stopped => (Stopped' /\ ticks' = ticks)]_vars
  /\ (raf ~> Stopped)

C10_Witness ==
  /\ Stopped
  /\ ticks = TickLimit + 1
  /\ tick = TickLimit + 1
  /\ rafCalls = TickLimit + 2

====
